---- MODULE Spec2Model ----
(***************************************************************************)
(* uedit: the edit pipeline of src/main.rs over the in-memory asset graph  *)
(* (name table, import list, export list), and the transplant of a rooted  *)
(* subgraph of a donor asset into the target asset.                        *)
(*                                                                         *)
(* Strings are sequences of one-character strings, so that contains and    *)
(* replace, split and parse are computed as the program computes them.     *)
(* A name reference is a 1-based position in the owning asset's name       *)
(* table; a package index is the program's signed integer (0: none,        *)
(* i > 0: export i, i < 0: import -i).                                     *)
(***************************************************************************)
EXTENDS Integers, Sequences, FiniteSets, TLC

VARIABLES
    pc,           \* where main() is: "open", "names", "edits", "done", "aborted"
    stage,        \* the last edit loop of main() that ran (0..5), loops run in order
    n,            \* command-line items consumed so far (edit arguments and roots)
    asset,        \* the target asset: [names, imports, exports]
    donor_asset,  \* the donor file's asset: [names, imports, exports], never written
    stems,        \* [input, output]: the file stems of --input and --output
    levels,       \* [target, donor]: the level indices found at lines 390-391
    out,          \* the output files: "none", "created" (empty), "written"
    pre,          \* history: the target asset before the last step
    op            \* history: what the last step was and what it computed

vars == <<pc, stage, n, asset, donor_asset, stems, levels, out, pre, op>>

----------------------------------------------------------------------------
(* Bounds of the model. *)

\* command-line items (edit arguments plus transplant roots) one run consumes
MaxArgs == 2
\* length of the varied create-before-serialization list of a donor export
MaxDeps == 2
\* length of the varied property list of a target export
MaxProps == 2

----------------------------------------------------------------------------
(* Strings. *)

\* the least position of a set of positions, 0 when there is none
First(S) == IF S = {} THEN 0 ELSE CHOOSE i \in S : \A j \in S : i <= j

StartsWith(s, p) == Len(p) <= Len(s) /\ SubSeq(s, 1, Len(p)) = p

\* str::contains
Contains(s, p) == \E i \in 1..(Len(s) - Len(p) + 1) : SubSeq(s, i, i + Len(p) - 1) = p

RECURSIVE Replace(_, _, _)
\* str::replace with a non-empty pattern: every non-overlapping match, left to right
Replace(s, from, to) ==
    IF Len(s) < Len(from) \/ from = <<>> THEN s
    ELSE IF StartsWith(s, from)
         THEN to \o Replace(SubSeq(s, Len(from) + 1, Len(s)), from, to)
         ELSE <<Head(s)>> \o Replace(Tail(s), from, to)

RECURSIVE Split(_, _)
\* str::split on a one-character separator: the fields, at least one
Split(s, sep) ==
    IF \A i \in 1..Len(s) : s[i] # sep THEN <<s>>
    ELSE LET i == CHOOSE j \in 1..Len(s) : s[j] = sep /\ \A h \in 1..(j - 1) : s[h] # sep
         IN  <<SubSeq(s, 1, i - 1)>> \o Split(SubSeq(s, i + 1, Len(s)), sep)

Digits == <<"0", "1", "2", "3", "4", "5", "6", "7", "8", "9">>

IsDigit(c) == \E d \in 1..10 : Digits[d] = c

DigitVal(c) == (CHOOSE d \in 1..10 : Digits[d] = c) - 1

RECURSIVE ParseNat(_)
\* from_str_radix(s, 10) of a string of digits
ParseNat(s) == IF s = <<>> THEN 0 ELSE 10 * ParseNat(SubSeq(s, 1, Len(s) - 1)) + DigitVal(s[Len(s)])

\* from_str_radix(s, 10) is Ok
IsNat(s) == s # <<>> /\ \A i \in 1..Len(s) : IsDigit(s[i])

PersistentLevel == <<"P", "e", "r", "s", "i", "s", "t", "e", "n", "t", "L", "e", "v", "e", "l">>

----------------------------------------------------------------------------
(* The name table and the two index spaces. *)

\* FName::get_owned_content: the string a name reference resolves to now
get_owned_content(a, ref) == a.names[ref]

\* the position of the first entry equal to s, 0 when there is none
search_name_reference(names, s) == First({i \in 1..Len(names) : names[i] = s})

add_name_reference(names, s, existing) ==
    IF existing # 0 THEN [names |-> names, ref |-> existing]
    ELSE [names |-> Append(names, s), ref |-> Len(names) + 1]

\* Asset::add_fname: the existing entry's reference, else a new entry at the end
add_fname(names, s) == add_name_reference(names, s, search_name_reference(names, s))

\* Asset::get_export(index) is Some
has_export(a, i) == i \in 1..Len(a.exports)

\* Asset::get_import(index) is Some
has_import(a, i) == -i \in 1..Len(a.imports)

get_export(a, i) == a.exports[i]

get_import(a, i) == a.imports[-i]

\* find_persistent_level_index: the first Level export named PersistentLevel, 0 for None
find_persistent_level_index(a) ==
    First({i \in 1..Len(a.exports) :
              /\ a.exports[i].variant = "Level"
              /\ get_owned_content(a, a.exports[i].object_name) = PersistentLevel})

----------------------------------------------------------------------------
(* Records of the asset graph. *)

\* a Property: kind and name, and the fields its kind uses: ref (the name
\* reference of a Name or Enum value, the package index of an Object value,
\* 0 for none), vec (the components of a Vector or Rotator), sub (the nested
\* list of a Struct or Array), stype (struct_type or enum_type, 0 for None)
Prop(kind, name, ref, vec, sub, stype) ==
    [kind |-> kind, name |-> name, ref |-> ref, vec |-> vec, sub |-> sub, stype |-> stype]

NoVec == <<0, 0, 0>>

Import(class_package, class_name, object_name, outer_index) ==
    [class_package |-> class_package, class_name |-> class_name,
     object_name |-> object_name, outer_index |-> outer_index]

\* an Export: the base record, its three dependency lists (cbs:
\* create_before_serialization_dependencies, sbc: serialization_before_create_
\* dependencies, cbc: create_before_create_dependencies), and the payload:
\* variant "Normal" (properties) or "Level" (properties and actors)
Export(object_name, class_index, outer_index, cbs, sbc, cbc, variant, properties, actors) ==
    [object_name |-> object_name, class_index |-> class_index, super_index |-> 0,
     template_index |-> 0, outer_index |-> outer_index,
     cbs |-> cbs, sbc |-> sbc, cbc |-> cbc,
     variant |-> variant, properties |-> properties, actors |-> actors]

\* all sequences over S of length at most k
SeqsUpTo(S, k) == UNION {[1..m -> S] : m \in 0..k}

----------------------------------------------------------------------------
(* The target assets the runs start from. *)

sAct == <<"A", "c", "t">>
sTag == <<"T", "a", "g">>
sLoc == <<"L", "o", "c">>
sOld == <<"O", "l", "d">>
sNew == <<"N", "e", "w">>
sPkg == <<"P", "k", "g">>
sCls == <<"C", "l", "s">>
sZz == <<"Z", "z">>

TargetNames == <<sPkg, sCls, sOld, sAct, PersistentLevel, sTag, sLoc>>

\* the name reference of s in the target's loaded table
TN(s) == search_name_reference(TargetNames, s)

\* the property lists of the target's first export that the edit runs vary
TargetPropAtoms ==
    { Prop("Name", TN(sTag), TN(sOld), NoVec, <<>>, 0),
      Prop("Vector", TN(sLoc), 0, <<7, 8, 9>>, <<>>, 0),
      Prop("Rotator", TN(sLoc), 0, <<4, 5, 6>>, <<>>, 0),
      Prop("Name", TN(sLoc), TN(sOld), NoVec, <<>>, 0),
      Prop("Struct", TN(sLoc), 0, NoVec,
           << Prop("Name", TN(sLoc), TN(sOld), NoVec, <<>>, 0),
              Prop("Vector", TN(sLoc), 0, <<7, 8, 9>>, <<>>, 0),
              Prop("Rotator", TN(sLoc), 0, <<4, 5, 6>>, <<>>, 0) >>, TN(sLoc)) }

TargetPropLists == SeqsUpTo(TargetPropAtoms, MaxProps)

DefaultProps == << Prop("Name", TN(sTag), TN(sOld), NoVec, <<>>, 0) >>

\* a loaded target: three imports (two named Old), an actor with the given
\* properties, the level (or, without one, a Normal export of that name), and
\* a second actor of the same name
Target(props, withLevel) ==
    [names |-> TargetNames,
     imports |-> << Import(TN(sPkg), TN(sCls), TN(sPkg), 0),
                    Import(TN(sPkg), TN(sCls), TN(sOld), -1),
                    Import(TN(sPkg), TN(sCls), TN(sOld), -1) >>,
     exports |-> << Export(TN(sAct), -2, 2, <<>>, <<-2>>, <<2>>, "Normal", props, <<>>),
                    Export(TN(PersistentLevel), -2, 0, <<1, 3>>, <<>>, <<>>,
                           IF withLevel THEN "Level" ELSE "Normal", <<>>,
                           IF withLevel THEN <<1, 3>> ELSE <<>>),
                    Export(TN(sAct), -2, 2, <<>>, <<-2>>, <<2>>, "Normal", DefaultProps, <<>>) >>]

NoAsset == [names |-> <<>>, imports |-> <<>>, exports |-> <<>>]

NoOp == [kind |-> "none", ok |-> TRUE]

\* main() up to line 150: the arguments are parsed and the target is loaded
InitWith(targets, donors, stemSet) ==
    /\ pc = "open"
    /\ stage = 0
    /\ n = 0
    /\ asset \in targets
    /\ donor_asset \in donors
    /\ stems \in stemSet
    /\ levels = [target |-> 0, donor |-> 0]
    /\ out = "none"
    /\ pre = NoAsset
    /\ op = NoOp

DefaultStems == {[input |-> <<"m">>, output |-> <<"w">>]}

----------------------------------------------------------------------------
(* main(), lines 151-178: the output files and the name table. *)

\* lines 151-165: File::create of both output files, before any edit
OpenOutput ==
    /\ pc = "open"
    /\ pc' = "names"
    /\ out' = "created"
    /\ pre' = asset
    /\ op' = [kind |-> "open", ok |-> TRUE]
    /\ UNCHANGED <<stage, n, asset, donor_asset, stems, levels>>

\* lines 169-178: each entry that contains the input stem has every occurrence
\* replaced by the output stem, in place
rename_matching(names, input, output) ==
    [i \in 1..Len(names) |->
        IF Contains(names[i], input) THEN Replace(names[i], input, output) ELSE names[i]]

RenameMatching ==
    /\ pc = "names"
    /\ pc' = "edits"
    /\ asset' = [asset EXCEPT !.names = rename_matching(asset.names, stems.input, stems.output)]
    /\ pre' = asset
    /\ op' = [kind |-> "rename_matching", ok |-> TRUE]
    /\ UNCHANGED <<stage, n, donor_asset, stems, levels, out>>

\* lines 634-636: write_data, reached when nothing panicked
Save ==
    /\ pc = "edits"
    /\ pc' = "done"
    /\ out' = "written"
    /\ pre' = asset
    /\ op' = [kind |-> "save", ok |-> TRUE]
    /\ UNCHANGED <<stage, n, asset, donor_asset, stems, levels>>

\* a failure that is reported and the run goes on
ReportAndContinue(kind, why) ==
    /\ pre' = asset
    /\ op' = [kind |-> kind, ok |-> FALSE, why |-> why]
    /\ UNCHANGED <<pc, stage, n, asset, donor_asset, stems, levels, out>>

\* a panic: the process ends, nothing more runs
Abort(kind, why) ==
    /\ pc' = "aborted"
    /\ pre' = asset
    /\ op' = [kind |-> kind, ok |-> FALSE, why |-> why]
    /\ UNCHANGED <<stage, n, asset, donor_asset, stems, levels, out>>

----------------------------------------------------------------------------
(* main(), lines 180-255: imports and actors. *)


\* lines 181-190: every import named name gets outer_index 0
\* disable_import that sets a disabled import back to -1
disable_import_toggled(a, name) ==
    [a EXCEPT !.imports =
        [i \in 1..Len(a.imports) |->
            IF get_owned_content(a, a.imports[i].object_name) = name
            THEN [a.imports[i] EXCEPT !.outer_index = IF @ = 0 THEN -1 ELSE 0]
            ELSE a.imports[i]]]

disable_import(a, name) ==
    [a EXCEPT !.imports =
        [i \in 1..Len(a.imports) |->
            IF get_owned_content(a, a.imports[i].object_name) = name
            THEN [a.imports[i] EXCEPT !.outer_index = 0]
            ELSE a.imports[i]]]

\* the items some loop may still consume
Left == MaxArgs - n

DisableImport(name) ==
    /\ pc = "edits" /\ stage <= 1 /\ Left >= 1
    /\ stage' = 1
    /\ n' = n + 1
    /\ asset' = disable_import(asset, name)
    /\ pre' = asset
    /\ op' = [kind |-> "disable_import", ok |-> TRUE, name |-> name]
    /\ UNCHANGED <<pc, donor_asset, stems, levels, out>>

\* lines 194-209 for one argument: [ok, asset, found]; ok is FALSE where an
\* unwrap of a missing token panics
\* rename_first without the break of line 204: every import of that name
rename_every(a, old_name, new_fname) ==
    [ok |-> TRUE,
     found |-> \E j \in 1..Len(a.imports) : new_fname.names[a.imports[j].object_name] = old_name,
     asset |-> [a EXCEPT !.names = new_fname.names,
                         !.imports = [j \in 1..Len(a.imports) |->
                             IF new_fname.names[a.imports[j].object_name] = old_name
                             THEN [a.imports[j] EXCEPT !.object_name = new_fname.ref]
                             ELSE a.imports[j]]]]

\* lines 197-209: the first import of that name gets the interned new name
rename_first(a, old_name, new_fname) ==
    LET i == First({j \in 1..Len(a.imports) :
                       new_fname.names[a.imports[j].object_name] = old_name})
    IN  [ok |-> TRUE, found |-> i # 0,
         asset |-> IF i = 0 THEN [a EXCEPT !.names = new_fname.names]
                   ELSE [a EXCEPT !.names = new_fname.names,
                                  !.imports[i].object_name = new_fname.ref]]

rename_tokens(a, tokens) ==
    IF Len(tokens) < 2 THEN [ok |-> FALSE, found |-> FALSE, asset |-> a]
    ELSE rename_first(a, tokens[1], add_fname(a.names, tokens[2]))

rename_import(a, arg) == rename_tokens(a, Split(arg, ">"))

RenameImport(arg) ==
    /\ pc = "edits" /\ stage <= 2 /\ Left >= 1
    /\ \E r \in {rename_import(asset, arg)} :
           IF r.ok
           THEN /\ stage' = 2
                /\ n' = n + 1
                /\ asset' = r.asset
                /\ pre' = asset
                /\ op' = [kind |-> "rename_import", ok |-> TRUE, arg |-> arg,
                          found |-> r.found]
                /\ UNCHANGED <<pc, donor_asset, stems, levels, out>>
           ELSE Abort("rename_import", "MalformedExpression")

RECURSIVE indices_of_name(_, _, _)
\* lines 214-218 for one name: the 0-based positions, from i on, of the exports
\* of that name
indices_of_name(a, name, i) ==
    IF i > Len(a.exports) THEN <<>>
    ELSE (IF get_owned_content(a, a.exports[i].object_name) = name THEN <<i - 1>> ELSE <<>>)
         \o indices_of_name(a, name, i + 1)

RECURSIVE indices_by_name(_, _)
\* lines 213-219
indices_by_name(a, by_name) ==
    IF by_name = <<>> THEN <<>>
    ELSE indices_of_name(a, Head(by_name), 1) \o indices_by_name(a, Tail(by_name))

\* remove_actors with the actors compared as 0-based positions
remove_actors_zero_based(a, resolved, persistent_level_index) ==
    IF persistent_level_index = 0
    THEN [ok |-> FALSE, why |-> "LevelRootNotFound", asset |-> a, resolved |-> resolved]
    ELSE [ok |-> TRUE, why |-> "", resolved |-> resolved,
          asset |-> [a EXCEPT !.exports[persistent_level_index].actors =
                                  SelectSeq(@, LAMBDA i : i + 1 \notin resolved)]]

\* lines 238-254: the level's actors without the resolved indices
remove_actors(a, resolved, persistent_level_index) ==
    IF persistent_level_index = 0
    THEN [ok |-> FALSE, why |-> "LevelRootNotFound", asset |-> a, resolved |-> resolved]
    ELSE [ok |-> TRUE, why |-> "", resolved |-> resolved,
          asset |-> [a EXCEPT !.exports[persistent_level_index].actors =
                                  SelectSeq(@, LAMBDA i : i \notin resolved)]]

\* lines 224-255; resolved is the set of 1-based indices of actor_indices_to_disable
disable_resolved(a, resolved) ==
    IF resolved = {} THEN [ok |-> TRUE, why |-> "", asset |-> a, resolved |-> {}]
    ELSE IF \E i \in resolved : ~has_export(a, i)
    THEN [ok |-> FALSE, why |-> "AmbiguousRootSelector", asset |-> a, resolved |-> resolved]
    ELSE remove_actors(a, resolved, find_persistent_level_index(a))

\* the 1-based indices of a list of 0-based ones
one_based(actor_indices_to_disable) ==
    {actor_indices_to_disable[j] + 1 : j \in 1..Len(actor_indices_to_disable)}

\* lines 212-255: [ok, why, asset, resolved]. A numeric selector that is no
\* number, or 0 (i - 1 underflows: a panic in a debug build, and in a release
\* build the wrapped value is no export), or past the last export panics.
disable_actors(a, by_name, by_index) ==
    IF \E j \in 1..Len(by_index) : ~IsNat(by_index[j])
    THEN [ok |-> FALSE, why |-> "AmbiguousRootSelector", asset |-> a, resolved |-> {}]
    ELSE disable_resolved(a, one_based(indices_by_name(a, by_name)
                                       \o [j \in 1..Len(by_index) |-> ParseNat(by_index[j]) - 1]))

\* the selectors of one run: --disable-actor-by-name and --disable-actor-by-index
ActorNames == {sAct, sZz}

ActorIndices == {<<"0">>, <<"1">>, <<"3">>, <<"4">>}

DisableActors(by_name, by_index) ==
    /\ pc = "edits" /\ stage <= 2
    /\ Len(by_name) + Len(by_index) \in 1..Left
    /\ \E r \in {disable_actors(asset, by_name, by_index)} :
           IF r.ok
           THEN /\ stage' = 3
                /\ n' = n + Len(by_name) + Len(by_index)
                /\ asset' = r.asset
                /\ pre' = asset
                /\ op' = [kind |-> "disable_actors", ok |-> TRUE, by_name |-> by_name,
                          by_index |-> by_index, resolved |-> r.resolved]
                /\ UNCHANGED <<pc, donor_asset, stems, levels, out>>
           ELSE Abort("disable_actors", r.why)

----------------------------------------------------------------------------
(* main(), lines 260-374: edit_export. *)

\* str::split_once on a one-character separator: <<before, after>>, <<>> for None
split_once(s, sep) ==
    LET i == First({j \in 1..Len(s) : s[j] = sep})
    IN  IF i = 0 THEN <<>> ELSE <<SubSeq(s, 1, i - 1), SubSeq(s, i + 1, Len(s))>>

\* find_prop with the kind of the property not looked at
find_prop_any_kind(a, props, prop_type, prop_name) ==
    First({j \in 1..Len(props) : get_owned_content(a, props[j].name) = prop_name})

\* lines 323-362: the first property of props the value may overwrite: a Name
\* property for a Name value, a Rotator or Vector property for a Vec3 value,
\* of the given name; 0 when there is none
find_prop(a, props, prop_type, prop_name) ==
    First({j \in 1..Len(props) :
              /\ IF prop_type = "Name" THEN props[j].kind = "Name"
                 ELSE props[j].kind \in {"Rotator", "Vector"}
              /\ get_owned_content(a, props[j].name) = prop_name})

\* lines 305-314: the first Struct property of that name, 0 when there is none
find_struct(a, props, struct_name) ==
    First({j \in 1..Len(props) :
              props[j].kind = "Struct" /\ get_owned_content(a, props[j].name) = struct_name})

\* lines 333 and 342-356: the property with the new value
overwrite(p, prop_type, new_name_value, new_vec_value) ==
    IF prop_type = "Name" THEN [p EXCEPT !.ref = new_name_value]
    ELSE [p EXCEPT !.vec = new_vec_value]

EditFailed(a, why) ==
    [ok |-> FALSE, why |-> why, asset |-> a, export |-> 0, struct |-> 0, prop |-> 0]

\* lines 322-366: the property found in the selected list is overwritten
edit_prop(a, export_index, s, i, prop_type, new_name_value, new_vec_value) ==
    IF i = 0 THEN EditFailed(a, "PropertyNotFound")
    ELSE [ok |-> TRUE, why |-> "", export |-> export_index, struct |-> s, prop |-> i,
          asset |-> IF s = 0
                    THEN [a EXCEPT !.exports[export_index].properties[i] =
                              overwrite(@, prop_type, new_name_value, new_vec_value)]
                    ELSE [a EXCEPT !.exports[export_index].properties[s].sub[i] =
                              overwrite(@, prop_type, new_name_value, new_vec_value)]]

\* lines 303-321: the three-field form searches the list of the Struct property
edit_struct(a, export_index, s, prop_name, prop_type, new_name_value, new_vec_value) ==
    IF s = 0 THEN EditFailed(a, "StructNotFound")
    ELSE edit_prop(a, export_index, s,
                   find_prop(a, get_export(a, export_index).properties[s].sub,
                             prop_type, prop_name),
                   prop_type, new_name_value, new_vec_value)

\* lines 288-321
edit_lookup(a, lhs_fields, prop_type, new_name_value, new_vec_value) ==
    IF Len(lhs_fields) \notin {2, 3} THEN EditFailed(a, "MalformedExpression")
    ELSE IF ~IsNat(lhs_fields[1]) THEN EditFailed(a, "MalformedExpression")
    ELSE IF ~has_export(a, ParseNat(lhs_fields[1])) THEN EditFailed(a, "ExportNotFound")
    ELSE IF Len(lhs_fields) = 3
    THEN edit_struct(a, ParseNat(lhs_fields[1]),
                     find_struct(a, get_export(a, ParseNat(lhs_fields[1])).properties,
                                 lhs_fields[2]),
                     lhs_fields[3], prop_type, new_name_value, new_vec_value)
    ELSE edit_prop(a, ParseNat(lhs_fields[1]), 0,
                   find_prop(a, get_export(a, ParseNat(lhs_fields[1])).properties,
                             prop_type, lhs_fields[2]),
                   prop_type, new_name_value, new_vec_value)

\* lines 274-277: a Name value is interned
edit_name(a, lhs_fields, new_fname) ==
    edit_lookup([a EXCEPT !.names = new_fname.names], lhs_fields, "Name", new_fname.ref, NoVec)

\* lines 264-286: one token on the right is a Name value, three are the
\* components of a Vec3, each parsed; a numeric token is a string of digits here
edit_fields(a, lhs_fields, rhs_fields) ==
    IF Len(rhs_fields) = 1 THEN edit_name(a, lhs_fields, add_fname(a.names, rhs_fields[1]))
    ELSE IF Len(rhs_fields) # 3 THEN EditFailed(a, "MalformedExpression")
    ELSE IF \E j \in 1..3 : ~IsNat(rhs_fields[j]) THEN EditFailed(a, "MalformedExpression")
    ELSE edit_lookup(a, lhs_fields, "Vec3", 0, [j \in 1..3 |-> ParseNat(rhs_fields[j])])

edit_sides(a, sides) ==
    IF sides = <<>> THEN EditFailed(a, "MalformedExpression")
    ELSE edit_fields(a, Split(sides[1], "."), Split(sides[2], ","))

\* lines 261-366 for one expression: [ok, why, asset, export, struct, prop]: the
\* export, the Struct property (0 for the export's own list) and the property
\* that was overwritten
edit_export(a, arg) == edit_sides(a, split_once(arg, "="))

\* a string of fields joined by a separator
RECURSIVE Join(_, _)
Join(fields, sep) ==
    IF Len(fields) = 1 THEN fields[1]
    ELSE fields[1] \o <<sep>> \o Join(Tail(fields), sep)

\* the --edit-export expressions the runs draw from: well-formed ones on the
\* first export and on the level, and one of each malformed shape
EditExpressions ==
    LET e(lhs, rhs) == Join(lhs, ".") \o <<"=">> \o Join(rhs, ",")
        one == <<"1">>
        v == << <<"1">>, <<"2">>, <<"3">> >>
    IN  { e(<<one, sTag>>, <<sNew>>),
          e(<<one, sLoc>>, <<sNew>>),
          e(<<one, sLoc>>, v),
          e(<<one, sLoc, sLoc>>, v),
          e(<<one, sLoc, sLoc>>, <<sNew>>),
          e(<<one, sTag, sLoc>>, v),
          e(<<<<"2">>, sTag>>, <<sNew>>),
          e(<<<<"4">>, sTag>>, <<sNew>>),
          e(<<sZz, sTag>>, <<sNew>>),
          e(<<one>>, <<sNew>>),
          e(<<one, sLoc, sLoc, sLoc>>, v),
          e(<<one, sLoc>>, << <<"1">>, <<"2">> >>),
          e(<<one, sLoc>>, << <<"1">>, sZz, <<"3">> >>),
          Join(<<one, sTag>>, ".") }

EditExport(arg) ==
    /\ pc = "edits" /\ stage <= 4 /\ Left >= 1
    /\ \E r \in {edit_export(asset, arg)} :
           IF r.ok
           THEN /\ stage' = 4
                /\ n' = n + 1
                /\ asset' = r.asset
                /\ pre' = asset
                /\ op' = [kind |-> "edit_export", ok |-> TRUE, arg |-> arg,
                          export |-> r.export, struct |-> r.struct, prop |-> r.prop]
                /\ UNCHANGED <<pc, donor_asset, stems, levels, out>>
           ELSE Abort("edit_export", r.why)

----------------------------------------------------------------------------
(* main(), lines 376-631: the transplant of one donor root. *)

\* lines 397-413, one iteration of the while loop. st is [ok, stack, order, map]:
\* the stack, the donor indices of exports_to_transplant in push order, and
\* export_map. An export is marked in export_map when it is popped; a
\* dependency is pushed unless it is marked by then.
\* export_closure_visit without the test of line 408: every positive
\* dependency is pushed
export_closure_visit_unchecked(d, cur, rest, order, map) ==
    [ok |-> TRUE, order |-> order, map |-> map,
     stack |-> rest \o SelectSeq(get_export(d, cur).cbs, LAMBDA dep : dep >= 1)]

export_closure_visit(d, cur, rest, order, map) ==
    [ok |-> TRUE, order |-> order, map |-> map,
     stack |-> rest \o SelectSeq(get_export(d, cur).cbs,
                                 LAMBDA dep : dep >= 1 /\ dep \notin DOMAIN map)]

export_closure_step(d, st) ==
    IF ~has_export(d, st.stack[Len(st.stack)])
    THEN [ok |-> FALSE, stack |-> <<>>, order |-> st.order, map |-> st.map]
    ELSE export_closure_visit(d, st.stack[Len(st.stack)],
                              SubSeq(st.stack, 1, Len(st.stack) - 1),
                              Append(st.order, st.stack[Len(st.stack)]),
                              (st.stack[Len(st.stack)] :> Len(st.order) + 1) @@ st.map)

RECURSIVE export_closure_loop(_, _)
export_closure_loop(d, st) ==
    IF ~st.ok \/ st.stack = <<>> THEN st
    ELSE export_closure_loop(d, export_closure_step(d, st))

\* lines 393-414
export_closure(d, root_index) ==
    export_closure_loop(d, [ok |-> TRUE, stack |-> <<root_index>>, order |-> <<>>,
                            map |-> <<>>])

\* lines 440-446: the parent import, looked up with get_import(outer_index).unwrap()
\* unless outer_index is a key of import_map
import_closure_parent(d, st, list, map, outer) ==
    IF outer \in DOMAIN map THEN [ok |-> TRUE, list |-> list, map |-> map]
    ELSE IF ~has_import(d, outer) THEN [ok |-> FALSE, list |-> st.list, map |-> st.map]
    ELSE [ok |-> TRUE, list |-> Append(list, outer), map |-> (outer :> Len(list) + 1) @@ map]

\* lines 431-446, one dependency. st is [ok, list, map]: the donor indices of
\* imports_to_transplant in push order, and import_map.
import_closure_step(d, st, dep) ==
    IF ~st.ok \/ dep >= 0 \/ dep \in DOMAIN st.map THEN st
    ELSE IF ~has_import(d, dep) THEN [ok |-> FALSE, list |-> st.list, map |-> st.map]
    ELSE import_closure_parent(d, st, Append(st.list, dep),
                               (dep :> Len(st.list) + 1) @@ st.map,
                               get_import(d, dep).outer_index)

RECURSIVE import_closure_deps(_, _, _)
import_closure_deps(d, st, deps) ==
    IF deps = <<>> THEN st
    ELSE import_closure_deps(d, import_closure_step(d, st, Head(deps)), Tail(deps))

RECURSIVE import_closure_loop(_, _, _)
import_closure_loop(d, st, order) ==
    IF order = <<>> THEN st
    ELSE import_closure_loop(d,
            import_closure_deps(d, st, get_export(d, Head(order)).cbs
                                       \o get_export(d, Head(order)).sbc),
            Tail(order))

\* lines 416-449
import_closure(d, order) ==
    import_closure_loop(d, [ok |-> TRUE, list |-> <<>>, map |-> <<>>], order)

\* export_tuples with the destinations counted from the target's last export
export_tuples_from_last(a, export_map) ==
    [k \in DOMAIN export_map |-> export_map[k] + Len(a.exports) - 1]

\* lines 451-454: the destination of each donor export of export_map
export_tuples(a, export_map) ==
    [k \in DOMAIN export_map |-> export_map[k] + Len(a.exports)]

\* lines 455-458: the destination of each donor import of import_map
import_tuples(a, import_map) ==
    [k \in DOMAIN import_map |-> -(Len(a.imports) + import_map[k])]

\* lines 485-491: extend with both maps, then insert the level entry
combined_map(export_map, import_map, donor_persistent_level_index, persistent_level_index) ==
    (donor_persistent_level_index :> persistent_level_index) @@ import_map @@ export_map

\* combined_map.get(&i).unwrap_or(&i)
remap_or_keep(combined, i) == IF i \in DOMAIN combined THEN combined[i] ELSE i

\* the property kinds the closure of lines 521-582 handles
SupportedKinds == {"Name", "Object", "Array", "Struct", "Vector", "Rotator", "Byte",
                   "Float", "Int", "Bool", "Enum", "MulticastSparseDelegate"}

\* add_fname of the string an optional name reference of the donor resolves to
add_fname_opt(names, d, ref) ==
    IF ref # 0 THEN add_fname(names, get_owned_content(d, ref))
    ELSE [names |-> names, ref |-> 0]

\* lines 532-540: a Struct's name, then its struct_type
intern_struct(p, name, stype) ==
    [ok |-> TRUE, names |-> stype.names,
     prop |-> [p EXCEPT !.name = name.ref, !.stype = stype.ref]]

\* lines 560-572: an Enum's name, then its value, then its enum_type
intern_enum_type(p, name, value, stype) ==
    [ok |-> TRUE, names |-> stype.names,
     prop |-> [p EXCEPT !.name = name.ref, !.ref = value.ref, !.stype = stype.ref]]

intern_enum(d, p, name, value) ==
    intern_enum_type(p, name, value, add_fname_opt(value.names, d, p.stype))

\* lines 521-582, the closure given to for_each_prop, with the name re-interned
intern_prop(d, p, name) ==
    IF p.kind \notin SupportedKinds THEN [ok |-> FALSE, names |-> name.names, prop |-> p]
    ELSE IF p.kind = "Struct" THEN intern_struct(p, name, add_fname_opt(name.names, d, p.stype))
    ELSE IF p.kind = "Enum" THEN intern_enum(d, p, name, add_fname_opt(name.names, d, p.ref))
    ELSE [ok |-> TRUE, names |-> name.names, prop |-> [p EXCEPT !.name = name.ref]]

\* lines 597-598: the value, of the donor, then the name, by now of the target
intern_name_prop(p, value) ==
    [ok |-> TRUE, names |-> value.names,
     prop |-> [p EXCEPT !.ref = value.ref,
                        !.name = search_name_reference(value.names, value.names[p.name])]]

\* one property under one of the three walks of lines 519-600; c is
\* [donor, combined]. "prop" (for_each_prop): re-intern the names of the donor;
\* "obj" (for_each_obj_prop): remap a non-zero Object value, unwrap;
\* "name" (for_each_name_prop): re-intern the value, then the name.
visit_prop(pass, c, names, p) ==
    CASE pass = "prop" -> intern_prop(c.donor, p, add_fname(names, get_owned_content(c.donor, p.name)))
      [] pass = "obj" ->
           IF p.kind # "Object" \/ p.ref = 0 THEN [ok |-> TRUE, names |-> names, prop |-> p]
           ELSE IF p.ref \notin DOMAIN c.combined
           THEN [ok |-> FALSE, names |-> names, prop |-> p]
           ELSE [ok |-> TRUE, names |-> names, prop |-> [p EXCEPT !.ref = c.combined[p.ref]]]
      [] OTHER ->
           IF p.kind # "Name" THEN [ok |-> TRUE, names |-> names, prop |-> p]
           ELSE intern_name_prop(p, add_fname(names, get_owned_content(c.donor, p.ref)))

RECURSIVE visit_props(_, _, _, _)

visit_join(r1, rs, rt) ==
    IF ~rt.ok THEN rt
    ELSE [ok |-> TRUE, names |-> rt.names,
          props |-> <<[r1.prop EXCEPT !.sub = rs.props]>> \o rt.props]

visit_tail(pass, c, r1, rs, tail) ==
    IF ~rs.ok THEN rs ELSE visit_join(r1, rs, visit_props(pass, c, rs.names, tail))

visit_nested(pass, c, r1, tail) ==
    IF ~r1.ok THEN [ok |-> FALSE, names |-> r1.names, props |-> <<>>]
    ELSE IF r1.prop.kind \in {"Array", "Struct"}
    THEN visit_tail(pass, c, r1, visit_props(pass, c, r1.names, r1.prop.sub), tail)
    ELSE visit_tail(pass, c, r1, [ok |-> TRUE, names |-> r1.names, props |-> r1.prop.sub], tail)

\* lines 652-692: a walk over a property list, into Array and Struct values:
\* [ok, names, props]
visit_props(pass, c, names, props) ==
    IF props = <<>> THEN [ok |-> TRUE, names |-> names, props |-> <<>>]
    ELSE visit_nested(pass, c, visit_prop(pass, c, names, Head(props)), Tail(props))

remap_list(combined, deps) == [j \in 1..Len(deps) |-> remap_or_keep(combined, deps[j])]

\* lines 496-518: the base record
rewrite_base(c, e, object_name, props) ==
    [e EXCEPT !.object_name = object_name.ref,
              !.class_index = remap_or_keep(c.combined, @),
              !.super_index = remap_or_keep(c.combined, @),
              !.template_index = remap_or_keep(c.combined, @),
              !.outer_index = remap_or_keep(c.combined, @),
              !.cbs = remap_list(c.combined, @),
              !.sbc = remap_list(c.combined, @),
              !.cbc = remap_list(c.combined, @),
              !.properties = props]

rewrite_names(c, e, object_name, r3) ==
    [ok |-> TRUE, why |-> "", names |-> r3.names,
     export |-> rewrite_base(c, e, object_name, r3.props)]

rewrite_objs(c, e, object_name, r2) ==
    IF ~r2.ok THEN [ok |-> FALSE, why |-> "RemapConsistencyError", names |-> r2.names, export |-> e]
    ELSE rewrite_names(c, e, object_name, visit_props("name", c, r2.names, r2.props))

rewrite_props(c, e, object_name, r1) ==
    IF ~r1.ok THEN [ok |-> FALSE, why |-> "UnsupportedPropertyKind", names |-> r1.names, export |-> e]
    ELSE rewrite_objs(c, e, object_name, visit_props("obj", c, r1.names, r1.props))

rewrite_named(c, e, object_name) ==
    rewrite_props(c, e, object_name, visit_props("prop", c, object_name.names, e.properties))

\* lines 495-600 for one export of exports_to_transplant: [ok, why, names, export]
rewrite_export(c, names, e) ==
    rewrite_named(c, e, add_fname(names, get_owned_content(c.donor, e.object_name)))

RECURSIVE rewrite_exports(_, _, _)

rewrite_exports_join(r1, rt) ==
    IF ~rt.ok THEN rt
    ELSE [ok |-> TRUE, why |-> "", names |-> rt.names, exports |-> <<r1.export>> \o rt.exports]

rewrite_exports_tail(c, r1, tail) ==
    IF ~r1.ok THEN [ok |-> FALSE, why |-> r1.why, names |-> r1.names, exports |-> <<>>]
    ELSE rewrite_exports_join(r1, rewrite_exports(c, r1.names, tail))

\* lines 494-601: [ok, why, names, exports]
rewrite_exports(c, names, order) ==
    IF order = <<>> THEN [ok |-> TRUE, why |-> "", names |-> names, exports |-> <<>>]
    ELSE rewrite_exports_tail(c, rewrite_export(c, names, get_export(c.donor, Head(order))),
                              Tail(order))

rewrite_import_names(c, i, class_package, class_name, object_name) ==
    IF i.outer_index # 0 /\ i.outer_index \notin DOMAIN c.combined
    THEN [ok |-> FALSE, names |-> object_name.names, import |-> i]
    ELSE [ok |-> TRUE, names |-> object_name.names,
          import |-> [class_package |-> class_package.ref,
                      class_name |-> class_name.ref,
                      object_name |-> object_name.ref,
                      outer_index |-> IF i.outer_index # 0
                                      THEN c.combined[i.outer_index] ELSE 0]]

rewrite_import_class(c, i, class_package, class_name) ==
    rewrite_import_names(c, i, class_package, class_name,
                         add_fname(class_name.names, get_owned_content(c.donor, i.object_name)))

rewrite_import_package(c, i, class_package) ==
    rewrite_import_class(c, i, class_package,
                         add_fname(class_package.names, get_owned_content(c.donor, i.class_name)))

\* lines 604-610 for one import of imports_to_transplant: [ok, names, import]
rewrite_import(c, names, i) ==
    rewrite_import_package(c, i, add_fname(names, get_owned_content(c.donor, i.class_package)))

RECURSIVE rewrite_imports(_, _, _)

rewrite_imports_join(r1, rt) ==
    IF ~rt.ok THEN rt
    ELSE [ok |-> TRUE, names |-> rt.names, imports |-> <<r1.import>> \o rt.imports]

rewrite_imports_tail(c, r1, tail) ==
    IF ~r1.ok THEN [ok |-> FALSE, names |-> r1.names, imports |-> <<>>]
    ELSE rewrite_imports_join(r1, rewrite_imports(c, r1.names, tail))

\* lines 603-611: [ok, names, imports]
rewrite_imports(c, names, list) ==
    IF list = <<>> THEN [ok |-> TRUE, names |-> names, imports |-> <<>>]
    ELSE rewrite_imports_tail(c, rewrite_import(c, names, get_import(c.donor, Head(list))),
                              Tail(list))

\* attach with the new exports and imports put before the target's
attach_in_front(a, persistent_level_index, actor_index, names, exports, imports) ==
    [names |-> names,
     imports |-> imports \o a.imports,
     exports |-> exports \o [a.exports EXCEPT
                     ![persistent_level_index].actors = Append(@, actor_index),
                     ![persistent_level_index].cbs = Append(@, actor_index)]]

\* attach that leaves the level's actors as they are
attach_no_actor(a, persistent_level_index, actor_index, names, exports, imports) ==
    [names |-> names,
     imports |-> a.imports \o imports,
     exports |-> [a.exports EXCEPT
                     ![persistent_level_index].cbs = Append(@, actor_index)] \o exports]

\* lines 613-630: the root joins the level's actors and dependencies, then both
\* lists are appended
attach(a, persistent_level_index, actor_index, names, exports, imports) ==
    [names |-> names,
     imports |-> a.imports \o imports,
     exports |-> [a.exports EXCEPT
                     ![persistent_level_index].actors = Append(@, actor_index),
                     ![persistent_level_index].cbs = Append(@, actor_index)] \o exports]

TransplantFailed(a, why) ==
    [ok |-> FALSE, why |-> why, asset |-> a, order |-> <<>>, export_map |-> <<>>,
     list |-> <<>>, import_map |-> <<>>, combined |-> <<>>]

\* lines 603-630
transplant_imports(a, lv, root_index, ec, ic, m, re, ri) ==
    IF ~ri.ok THEN TransplantFailed(a, "RemapConsistencyError")
    ELSE [ok |-> TRUE, why |-> "", order |-> ec.order, export_map |-> m.export_map,
          list |-> ic.list, import_map |-> m.import_map, combined |-> m.combined,
          asset |-> attach(a, lv.target, m.combined[root_index], ri.names,
                           re.exports, ri.imports)]

\* lines 494-611
transplant_exports(a, d, lv, root_index, ec, ic, m, re) ==
    IF ~re.ok THEN TransplantFailed(a, re.why)
    ELSE transplant_imports(a, lv, root_index, ec, ic, m, re,
                            rewrite_imports([donor |-> d, combined |-> m.combined],
                                            re.names, ic.list))

\* lines 481-492: m is [export_map, import_map, combined]; the assert_eq
transplant_maps(a, d, lv, root_index, ec, ic, m) ==
    IF Cardinality(DOMAIN m.export_map) + Cardinality(DOMAIN m.import_map) + 1
       # Cardinality(DOMAIN m.combined)
    THEN TransplantFailed(a, "RemapConsistencyError")
    ELSE transplant_exports(a, d, lv, root_index, ec, ic, m,
                            rewrite_exports([donor |-> d, combined |-> m.combined],
                                            a.names, ec.order))

\* lines 451-482
slots(a, lv, export_map, import_map) ==
    [export_map |-> export_map, import_map |-> import_map,
     combined |-> combined_map(export_map, import_map, lv.donor, lv.target)]

transplant_closed(a, d, lv, root_index, ec, ic) ==
    IF ~ic.ok THEN TransplantFailed(a, "ImportNotFound")
    ELSE transplant_maps(a, d, lv, root_index, ec, ic,
                         slots(a, lv, export_tuples(a, ec.map), import_tuples(a, ic.map)))

transplant_rooted(a, d, lv, root_index, ec) ==
    IF ~ec.ok THEN TransplantFailed(a, "ExportNotFound")
    ELSE transplant_closed(a, d, lv, root_index, ec, import_closure(d, ec.order))

\* lines 393-630 for one root: [ok, why, asset, order, export_map, list,
\* import_map, combined]; the maps are those of lines 481-482
transplant(a, d, lv, root_index) ==
    transplant_rooted(a, d, lv, root_index, export_closure(d, root_index))

\* lines 376-391: the donor is loaded and both level roots are looked up, unwrap
LoadDonor ==
    /\ pc = "edits" /\ stage <= 4
    /\ donor_asset # NoAsset
    /\ \E lv \in {[target |-> find_persistent_level_index(asset),
                   donor |-> find_persistent_level_index(donor_asset)]} :
           IF lv.target # 0 /\ lv.donor # 0
           THEN /\ stage' = 5
                /\ levels' = lv
                /\ pre' = asset
                /\ op' = [kind |-> "load_donor", ok |-> TRUE]
                /\ UNCHANGED <<pc, n, asset, donor_asset, stems, out>>
           ELSE Abort("load_donor", "LevelRootNotFound")

\* lines 392-631, one iteration of the loop over --actor-to-transplant
TransplantRoot(root_index) ==
    /\ pc = "edits" /\ stage = 5 /\ Left >= 1
    /\ \E r \in {transplant(asset, donor_asset, levels, root_index)} :
           IF r.ok
           THEN /\ n' = n + 1
                /\ asset' = r.asset
                /\ pre' = asset
                /\ op' = [kind |-> "transplant", ok |-> TRUE, root |-> root_index,
                          order |-> r.order, export_map |-> r.export_map,
                          list |-> r.list, import_map |-> r.import_map,
                          combined |-> r.combined]
                /\ UNCHANGED <<pc, stage, donor_asset, stems, levels, out>>
           ELSE Abort("transplant", r.why)

----------------------------------------------------------------------------
(* The donor assets. *)

sObj == <<"O", "b", "j">>
sDon == <<"D", "o", "n">>
sCmp == <<"C", "m", "p">>
sSub == <<"S", "u", "b">>
sRef == <<"R", "e", "f">>
sGrp == <<"G", "r", "p">>
sLeaf == <<"L", "e", "a", "f">>

DonorNames == <<PersistentLevel, sCls, sObj, sPkg, sDon, sCmp, sSub, sTag, sRef, sNew, sLoc,
                sGrp, sLeaf>>

\* the name reference of s in the donor's table
DN(s) == search_name_reference(DonorNames, s)

ObjectProp(i) == Prop("Object", DN(sRef), i, NoVec, <<>>, 0)

\* the properties of the donor's actor that the transplant runs vary: Object
\* values to an export and to an import, nested ones, a kind the transplant
\* does not handle (Str), and an Enum
DonorPropAtoms ==
    { ObjectProp(3),
      ObjectProp(-3),
      Prop("Struct", DN(sLoc), 0, NoVec,
           << Prop("Name", DN(sTag), DN(sNew), NoVec, <<>>, 0), ObjectProp(4) >>, DN(sLoc)),
      Prop("Array", DN(sLoc), 0, NoVec, << Prop("Str", DN(sTag), 0, NoVec, <<>>, 0) >>, 0),
      Prop("Enum", DN(sTag), DN(sNew), NoVec, <<>>, DN(sLoc)) }

DonorDefaultProps ==
    << Prop("Struct", DN(sLoc), 0, NoVec, << ObjectProp(1) >>, 0),
       Prop("Name", DN(sTag), DN(sNew), NoVec, <<>>, 0) >>

\* a donor: a package import, a class import in it and an object import in the
\* class; the level, the actor Don (export 2) with the given dependencies and
\* properties, its component Cmp (3), which depends on Sub (4); Leaf (5) and Grp
\* (6), which depends on Leaf, hold no index of an import
Donor(cbs2, cbs4, props2, withLevel) ==
    [names |-> DonorNames,
     imports |-> << Import(DN(sPkg), DN(sCls), DN(sPkg), 0),
                    Import(DN(sPkg), DN(sCls), DN(sCls), -1),
                    Import(DN(sPkg), DN(sCls), DN(sObj), -2) >>,
     exports |-> << Export(DN(PersistentLevel), -2, 0, <<2>>, <<>>, <<>>,
                           IF withLevel THEN "Level" ELSE "Normal", <<>>,
                           IF withLevel THEN <<2>> ELSE <<>>),
                    Export(DN(sDon), -2, 1, cbs2, <<>>, <<1>>, "Normal", props2, <<>>),
                    Export(DN(sCmp), -2, 2, <<4>>, <<>>, <<2>>, "Normal",
                           << ObjectProp(4) >>, <<>>),
                    Export(DN(sSub), 0, 3, cbs4, <<-2>>, <<3>>, "Normal",
                           << Prop("Float", DN(sLoc), 0, NoVec, <<>>, 0) >>, <<>>),
                    Export(DN(sLeaf), 0, 1, <<>>, <<>>, <<>>, "Normal",
                           << Prop("Float", DN(sLoc), 0, NoVec, <<>>, 0) >>, <<>>),
                    Export(DN(sGrp), 0, 1, <<5>>, <<>>, <<>>, "Normal", <<>>, <<>>) >>]

\* donors that vary the dependency lists
DonorsByDeps ==
    { Donor(cbs2, cbs4, DonorDefaultProps, TRUE) :
        cbs2 \in SeqsUpTo({-3, -2, -1, 2, 3, 4}, MaxDeps), cbs4 \in {<<>>, <<2>>, <<1>>} }

\* donors that vary the actor's properties
DonorsByProps ==
    { Donor(<<-2, 3>>, <<>>, props2, TRUE) : props2 \in SeqsUpTo(DonorPropAtoms, MaxProps) }

DonorNoLevel == Donor(<<>>, <<>>, DonorDefaultProps, FALSE)

----------------------------------------------------------------------------
(* Runs. *)

ImportNames == {sOld, sZz}

RenameArgs == {Join(<<sOld, sNew>>, ">"), Join(<<sOld, sPkg>>, ">"),
               Join(<<sZz, sNew>>, ">"), sOld}

Edits ==
    \/ \E name \in ImportNames : DisableImport(name)
    \/ \E arg \in RenameArgs : RenameImport(arg)
    \/ \E by_name \in SeqsUpTo(ActorNames, Left), by_index \in SeqsUpTo(ActorIndices, Left) :
          DisableActors(by_name, by_index)
    \/ \E arg \in EditExpressions : EditExport(arg)

\* runs with edit arguments and no donor
InitE ==
    InitWith({Target(p, TRUE) : p \in TargetPropLists} \cup {Target(DefaultProps, FALSE)},
             {NoAsset}, DefaultStems)

NextE == OpenOutput \/ RenameMatching \/ Edits \/ Save

SpecE == InitE /\ [][NextE]_vars

Transplants ==
    \/ LoadDonor
    \/ \E root_index \in 1..(Len(donor_asset.exports) + 1) : TransplantRoot(root_index)

\* runs with a donor and no edit arguments
InitT ==
    InitWith({Target(DefaultProps, TRUE)},
             DonorsByDeps \cup DonorsByProps \cup {DonorNoLevel}, DefaultStems)

NextT == OpenOutput \/ RenameMatching \/ Transplants \/ Save

SpecT == InitT /\ [][NextT]_vars

\* donors of each kind for the runs that edit and transplant
FewDonors ==
    { NoAsset, DonorNoLevel,
      Donor(<<-2, 3>>, <<>>, DonorDefaultProps, TRUE),
      Donor(<<3, 3>>, <<1>>, DonorDefaultProps, TRUE),
      Donor(<<-2>>, <<>>, << ObjectProp(-3) >>, TRUE),
      Donor(<<-2>>, <<>>, << Prop("Str", DN(sTag), 0, NoVec, <<>>, 0) >>, TRUE) }

\* any run: edit arguments, then a donor and roots
Init ==
    InitWith({Target(DefaultProps, TRUE), Target(DefaultProps, FALSE)}, FewDonors, DefaultStems)

Next == OpenOutput \/ RenameMatching \/ Edits \/ Transplants \/ Save

Spec == Init /\ [][Next]_vars

\* length of the names and file stems the name-table runs vary
MaxNameLen == 2

Words == SeqsUpTo({"m", "w"}, MaxNameLen) \ {<<>>}

\* runs whose name table holds two more names, over the letters of the stems
InitN ==
    InitWith({[Target(DefaultProps, TRUE) EXCEPT !.names = @ \o q] :
                 q \in {w \in Words \X Words : w[1] # w[2]}},
             {NoAsset},
             {[input |-> i, output |-> o] : i \in Words, o \in {<<"m">>, <<"w">>}})

NextN ==
    \/ OpenOutput
    \/ RenameMatching
    \/ \E arg \in RenameArgs : RenameImport(arg)
    \/ \E arg \in EditExpressions : EditExport(arg)
    \/ Save

SpecN == InitN /\ [][NextN]_vars

\* pops of the export stack a closure run may make
MaxPops == 12

\* the export closure of a root, pop by pop: op holds export_stack,
\* exports_to_transplant (as donor indices) and export_map
ClosureAt(root_index, r) ==
    [kind |-> "closure", ok |-> r.ok, root |-> root_index,
     stack |-> r.stack, order |-> r.order, map |-> r.map]

\* line 396: the donor is loaded and the stack holds the root
InitC ==
    /\ pc = "closure"
    /\ stage = 5
    /\ n = 0
    /\ asset = Target(DefaultProps, TRUE)
    /\ donor_asset \in DonorsByDeps
    /\ stems \in DefaultStems
    /\ levels = [target |-> find_persistent_level_index(asset),
                 donor |-> find_persistent_level_index(donor_asset)]
    /\ out = "created"
    /\ pre = asset
    /\ op \in {ClosureAt(root_index, [ok |-> TRUE, stack |-> <<root_index>>,
                                      order |-> <<>>, map |-> <<>>]) :
                  root_index \in 1..Len(donor_asset.exports)}

\* lines 397-412: one pop
ClosurePop ==
    /\ pc = "closure" /\ op.stack # <<>> /\ Len(op.order) < MaxPops
    /\ \E r \in {export_closure_step(donor_asset, op)} :
           IF r.ok
           THEN /\ op' = ClosureAt(op.root, r)
                /\ UNCHANGED <<pc, stage, n, asset, donor_asset, stems, levels, out, pre>>
           ELSE Abort("closure", "ExportNotFound")

\* line 397: pop returns None, the loop ends
ClosureDone ==
    /\ pc = "closure" /\ op.stack = <<>>
    /\ pc' = "closed"
    /\ UNCHANGED <<stage, n, asset, donor_asset, stems, levels, out, pre, op>>

NextC == ClosurePop \/ ClosureDone

\* the loop runs on: a pop that can be made is made
SpecC == InitC /\ [][NextC]_vars /\ WF_vars(NextC)

----------------------------------------------------------------------------
(* Properties of the edits. *)

\* the fields left of the "=" of the last edit_export argument, and right of it
LhsOfEdit == Split(SubSeq(op.arg, 1, First({j \in 1..Len(op.arg) : op.arg[j] = "="}) - 1), ".")

RhsOfEdit ==
    Split(SubSeq(op.arg, First({j \in 1..Len(op.arg) : op.arg[j] = "="}) + 1, Len(op.arg)), ",")

\* p may take the value of the last edit_export argument: it has the name of
\* the last field, and the kind of the value
CompatibleWithEdit(p) ==
    /\ pre.names[p.name] = LhsOfEdit[Len(LhsOfEdit)]
    /\ IF Len(RhsOfEdit) = 3 THEN p.kind \in {"Vector", "Rotator"} ELSE p.kind = "Name"

\* new is old with the first compatible property overwritten by the value
FirstCompatibleOverwritten(old, new) ==
    \E j \in 1..Len(old) :
        /\ CompatibleWithEdit(old[j])
        /\ \A h \in 1..(j - 1) : ~CompatibleWithEdit(old[h])
        /\ Len(new) = Len(old)
        /\ \A h \in 1..Len(old) : h # j => new[h] = old[h]
        /\ IF Len(RhsOfEdit) = 3
           THEN new[j] = [old[j] EXCEPT !.vec = [c \in 1..3 |-> ParseNat(RhsOfEdit[c])]]
           ELSE /\ asset.names[new[j].ref] = RhsOfEdit[1]
                /\ new[j] = [old[j] EXCEPT !.ref = new[j].ref]

\* new is old with, in the nested list of the first Struct property named by
\* the second field, the first compatible property overwritten
FirstStructEdited(old, new) ==
    \E s \in 1..Len(old) :
        /\ old[s].kind = "Struct" /\ pre.names[old[s].name] = LhsOfEdit[2]
        /\ \A h \in 1..(s - 1) : ~(old[h].kind = "Struct" /\ pre.names[old[h].name] = LhsOfEdit[2])
        /\ Len(new) = Len(old)
        /\ \A h \in 1..Len(old) : h # s => new[h] = old[h]
        /\ new[s] = [old[s] EXCEPT !.sub = new[s].sub]
        /\ FirstCompatibleOverwritten(old[s].sub, new[s].sub)

\* C5: an edit_export that succeeds overwrites exactly one property: the first
\* of the selected list (the export's own, or the nested list of the first
\* Struct property named by the second field) with the field's name and a kind
\* compatible with the value; every other property of the export, every other
\* export and every import is as before.
C5_EditOverwritesOneProperty ==
    (op.kind = "edit_export" /\ op.ok) =>
        LET e == ParseNat(LhsOfEdit[1])
        IN  /\ asset.imports = pre.imports
            /\ Len(asset.exports) = Len(pre.exports)
            /\ \A i \in 1..Len(pre.exports) : i # e => asset.exports[i] = pre.exports[i]
            /\ asset.exports[e] = [pre.exports[e] EXCEPT !.properties = asset.exports[e].properties]
            /\ \A i \in 1..Len(pre.names) : asset.names[i] = pre.names[i]
            /\ IF Len(LhsOfEdit) = 3
               THEN FirstStructEdited(pre.exports[e].properties, asset.exports[e].properties)
               ELSE FirstCompatibleOverwritten(pre.exports[e].properties,
                                               asset.exports[e].properties)

\* a Vec3 edit in a Struct went past a property of the same name and another kind
C5_Witness ==
    /\ op.kind = "edit_export" /\ op.ok
    /\ op.struct # 0 /\ op.prop = 2
    /\ asset.exports[1].properties[op.struct].sub[2].vec = <<1, 2, 3>>
    /\ asset.exports[1].properties[op.struct].sub[3].vec = <<4, 5, 6>>

\* the two names of the last rename_import argument
OldOfRename == Split(op.arg, ">")[1]

NewOfRename == Split(op.arg, ">")[2]

\* C7: rename_import gives the new name to the first import named old and to
\* no other; when none is named old the imports are as before, the failure is
\* only reported, and the run goes on to the remaining edits and the save.
C7_RenameImportFirstOnly ==
    (op.kind = "rename_import" /\ op.ok) =>
        LET named(j) == pre.names[pre.imports[j].object_name] = OldOfRename
        IN  /\ asset.exports = pre.exports
            /\ Len(asset.imports) = Len(pre.imports)
            /\ pc = "edits" /\ out = "created"
            /\ \A j \in 1..Len(pre.imports) :
                 IF named(j) /\ \A h \in 1..(j - 1) : ~named(h)
                 THEN /\ asset.names[asset.imports[j].object_name] = NewOfRename
                      /\ asset.imports[j] = [pre.imports[j] EXCEPT
                                                !.object_name = asset.imports[j].object_name]
                 ELSE asset.imports[j] = pre.imports[j]
            /\ op.found = \E j \in 1..Len(pre.imports) : named(j)

\* the second import was renamed and the third still has the old name
C7_Witness ==
    /\ op.kind = "rename_import" /\ op.ok /\ op.found
    /\ asset.names[asset.imports[2].object_name] = sNew
    /\ asset.names[asset.imports[3].object_name] = sOld

\* the 1-based indices the selectors of the last disable_actors name
ResolvedSelectors ==
    {i \in 1..Len(pre.exports) :
        \E j \in 1..Len(op.by_name) : pre.names[pre.exports[i].object_name] = op.by_name[j]}
    \cup {ParseNat(op.by_index[j]) : j \in 1..Len(op.by_index)}

\* C8: disable_actors leaves in the level's actor list exactly the former
\* entries that are not in the resolved set, in their order, and changes
\* nothing else: every export, the disabled ones too, is still there.
C8_DisableActorsDetaches ==
    (op.kind = "disable_actors" /\ op.ok) =>
        /\ asset.names = pre.names
        /\ asset.imports = pre.imports
        /\ Len(asset.exports) = Len(pre.exports)
        /\ \A i \in 1..Len(pre.exports) :
             asset.exports[i] = [pre.exports[i] EXCEPT !.actors = asset.exports[i].actors]
        /\ \A i \in 1..Len(pre.exports) :
             asset.exports[i].actors =
                 IF pre.exports[i].variant = "Level"
                    /\ pre.names[pre.exports[i].object_name] = PersistentLevel
                 THEN SelectSeq(pre.exports[i].actors, LAMBDA x : x \notin ResolvedSelectors)
                 ELSE pre.exports[i].actors

\* the first actor was detached, the third is still an actor, and both exports
\* are there
C8_Witness ==
    /\ op.kind = "disable_actors" /\ op.ok
    /\ pre.exports[2].actors = <<1, 3>>
    /\ asset.exports[2].actors = <<3>>
    /\ Len(asset.exports) = 3

\* C10: a disable_actors that goes through had no selector that matches
\* nothing: every name is the name of some export and every number is the
\* index of an export.
C10_SelectorNeverIgnored ==
    (op.kind = "disable_actors" /\ op.ok) =>
        /\ \A j \in 1..Len(op.by_name) :
             \E i \in 1..Len(pre.exports) :
                 pre.names[pre.exports[i].object_name] = op.by_name[j]
        /\ \A j \in 1..Len(op.by_index) : ParseNat(op.by_index[j]) \in 1..Len(pre.exports)

\* C6: the graph is handed to save only by a run in which nothing failed: a
\* failed step ends the run with the output files created and never written.
C6_FailureNeverSaves ==
    /\ ~op.ok => pc = "aborted"
    /\ pc = "aborted" => ~op.ok /\ out = "created" /\ ~ENABLED Next
    /\ out = "written" <=> pc = "done"
    /\ pc = "done" => op.kind = "save"

\* the transplant failed on a property kind after an edit changed the graph
C6_Witness ==
    /\ pc = "aborted"
    /\ op.kind = "transplant" /\ op.why = "UnsupportedPropertyKind"
    /\ asset.names # TargetNames
    /\ out = "created"

\* C9: no two entries of the target's name table hold the same string.
C9_NameTableUnique ==
    \A i, j \in 1..Len(asset.names) : i # j => asset.names[i] # asset.names[j]

----------------------------------------------------------------------------
(* Properties of the transplant. *)

\* the last step transplanted a root
Transplanted == op.kind = "transplant" /\ op.ok

\* the donor exports a set of donor exports depends on, by the positive entries
\* of create_before_serialization_dependencies
DependedOn(S) ==
    S \cup {k \in 1..Len(donor_asset.exports) :
               \E h \in S : \E j \in 1..Len(donor_asset.exports[h].cbs) :
                   donor_asset.exports[h].cbs[j] = k}

RECURSIVE ClosureOf(_)
ClosureOf(S) == IF DependedOn(S) = S THEN S ELSE ClosureOf(DependedOn(S))

\* index t of the target is valid there
ValidInTarget(t) ==
    \/ t \in 1..Len(asset.exports)
    \/ -t \in 1..Len(asset.imports)

\* the name an index resolves to, in the target and in the donor
TargetNameOf(t) ==
    IF t > 0 THEN asset.names[asset.exports[t].object_name]
    ELSE asset.names[asset.imports[-t].object_name]

DonorNameOf(v) ==
    IF v > 0 THEN donor_asset.names[donor_asset.exports[v].object_name]
    ELSE donor_asset.names[donor_asset.imports[-v].object_name]

\* index t of the target is the counterpart of index v of the donor: both 0, or
\* t is an entry of the target of the same list and name as entry v of the donor
Counterpart(t, v) ==
    IF v = 0 THEN t = 0
    ELSE /\ ValidInTarget(t)
         /\ (t > 0) = (v > 0)
         /\ TargetNameOf(t) = DonorNameOf(v)

CounterpartList(ts, vs) ==
    /\ Len(ts) = Len(vs)
    /\ \A j \in 1..Len(vs) : Counterpart(ts[j], vs[j])

\* the Object values of a property list and of the lists nested in it are the
\* counterparts of those of the donor's
RECURSIVE CounterpartProps(_, _)
CounterpartProps(tp, dp) ==
    /\ Len(tp) = Len(dp)
    /\ \A j \in 1..Len(dp) :
         /\ dp[j].kind = "Object" => Counterpart(tp[j].ref, dp[j].ref)
         /\ CounterpartProps(tp[j].sub, dp[j].sub)

\* C1: after a transplant every index a newly appended export holds
\* (class_index, super_index, template_index, outer_index, the entries of its
\* three dependency lists, its Object values) is 0 or an entry of the target
\* that is the counterpart of the donor's entry: no index of the donor is left.
C1_IndexSpaceIsolation ==
    Transplanted =>
        \A pos \in 1..Len(op.order) :
            \E j \in {Len(pre.exports) + pos}, k \in {op.order[pos]} :
                /\ Counterpart(asset.exports[j].class_index, donor_asset.exports[k].class_index)
                /\ Counterpart(asset.exports[j].super_index, donor_asset.exports[k].super_index)
                /\ Counterpart(asset.exports[j].template_index,
                               donor_asset.exports[k].template_index)
                /\ Counterpart(asset.exports[j].outer_index, donor_asset.exports[k].outer_index)
                /\ CounterpartList(asset.exports[j].cbs, donor_asset.exports[k].cbs)
                /\ CounterpartList(asset.exports[j].sbc, donor_asset.exports[k].sbc)
                /\ CounterpartList(asset.exports[j].cbc, donor_asset.exports[k].cbc)
                /\ CounterpartProps(asset.exports[j].properties,
                                    donor_asset.exports[k].properties)

\* the names and values of a property list are those of the donor's
RECURSIVE CopyOfProps(_, _)
CopyOfProps(tp, dp) ==
    /\ Len(tp) = Len(dp)
    /\ \A j \in 1..Len(dp) :
         /\ tp[j].kind = dp[j].kind
         /\ asset.names[tp[j].name] = donor_asset.names[dp[j].name]
         /\ tp[j].vec = dp[j].vec
         /\ dp[j].kind = "Name" => asset.names[tp[j].ref] = donor_asset.names[dp[j].ref]
         /\ CopyOfProps(tp[j].sub, dp[j].sub)

\* export te of the target is the rewritten copy of export de of the donor
CopyOfExport(te, de) ==
    /\ asset.names[te.object_name] = donor_asset.names[de.object_name]
    /\ te.variant = de.variant
    /\ te.actors = de.actors
    /\ Len(te.cbs) = Len(de.cbs) /\ Len(te.sbc) = Len(de.sbc) /\ Len(te.cbc) = Len(de.cbc)
    /\ CopyOfProps(te.properties, de.properties)

\* import ti of the target is the rewritten copy of import di of the donor
CopyOfImport(ti, di) ==
    /\ asset.names[ti.class_package] = donor_asset.names[di.class_package]
    /\ asset.names[ti.class_name] = donor_asset.names[di.class_name]
    /\ asset.names[ti.object_name] = donor_asset.names[di.object_name]

\* C2: the slots agree with the append. With E exports and I imports in the
\* target before the root, every donor export k of the closure is mapped to a
\* d > E where the target now has the rewritten copy of k, the root to E + 1;
\* every collected donor import m is mapped to -(I + v), v >= 1, where the
\* target now has the rewritten copy of m.
C2_SlotsAgreeWithAppend ==
    Transplanted =>
        /\ DOMAIN op.export_map = ClosureOf({op.root})
        /\ op.export_map[op.root] = Len(pre.exports) + 1
        /\ \A k \in DOMAIN op.export_map :
             /\ op.export_map[k] \in (Len(pre.exports) + 1)..Len(asset.exports)
             /\ CopyOfExport(asset.exports[op.export_map[k]], donor_asset.exports[k])
        /\ \A k \in ClosureOf({op.root}) :
             \A j \in 1..Len(donor_asset.exports[k].cbs \o donor_asset.exports[k].sbc) :
                 (donor_asset.exports[k].cbs \o donor_asset.exports[k].sbc)[j] < 0
                 => (donor_asset.exports[k].cbs \o donor_asset.exports[k].sbc)[j]
                        \in DOMAIN op.import_map
        /\ \A m \in DOMAIN op.import_map :
             /\ -op.import_map[m] \in (Len(pre.imports) + 1)..Len(asset.imports)
             /\ CopyOfImport(asset.imports[-op.import_map[m]], donor_asset.imports[-m])

\* a root whose closure was entered twice at one export, with imports collected
C2_Witness ==
    /\ Transplanted
    /\ Len(op.order) > Cardinality(DOMAIN op.export_map)
    /\ Cardinality(DOMAIN op.import_map) >= 2
    /\ Len(asset.exports) = Len(pre.exports) + Len(op.order)

\* C3: the transplant only appends, root after root. Every export and import
\* the target had before a root is where it was and as it was, but for the
\* level root, whose actors and create-before-serialization list each end with
\* one more entry, the root's destination; the destinations given out for a
\* root are indices the target did not have before it, each given once.
C3_AppendOnly ==
    Transplanted =>
        /\ Len(asset.exports) >= Len(pre.exports)
        /\ Len(asset.imports) >= Len(pre.imports)
        /\ \A i \in 1..Len(pre.names) : asset.names[i] = pre.names[i]
        /\ \A i \in 1..Len(pre.imports) : asset.imports[i] = pre.imports[i]
        /\ \A i \in 1..Len(pre.exports) :
             asset.exports[i] =
                 IF i = levels.target
                 THEN [pre.exports[i] EXCEPT
                          !.actors = Append(@, op.export_map[op.root]),
                          !.cbs = Append(@, op.export_map[op.root])]
                 ELSE pre.exports[i]
        /\ \A k \in DOMAIN op.export_map :
             op.export_map[k] \in (Len(pre.exports) + 1)..Len(asset.exports)
        /\ \A m \in DOMAIN op.import_map :
             -op.import_map[m] \in (Len(pre.imports) + 1)..Len(asset.imports)
        /\ \A k, h \in DOMAIN op.export_map : k # h => op.export_map[k] # op.export_map[h]
        /\ \A m, h \in DOMAIN op.import_map : m # h => op.import_map[m] # op.import_map[h]

\* a second root, transplanted after the exports and imports of a first
C3_Witness ==
    /\ Transplanted
    /\ n = 2
    /\ Len(pre.exports) > 3 /\ Len(pre.imports) > 3
    /\ Len(asset.exports) > Len(pre.exports)
    /\ Len(asset.exports[levels.target].actors) = 4

\* the root of the last transplant holds no index of an import in its
\* dependency lists
RootWithoutImportDeps ==
    \A j \in 1..Len(donor_asset.exports[op.root].cbs \o donor_asset.exports[op.root].sbc
                    \o donor_asset.exports[op.root].cbc) :
        (donor_asset.exports[op.root].cbs \o donor_asset.exports[op.root].sbc
         \o donor_asset.exports[op.root].cbc)[j] >= 0

\* one export, no import, and one actor more: the new export
OneExportAppended ==
    /\ Len(asset.exports) = Len(pre.exports) + 1
    /\ Len(asset.imports) = Len(pre.imports)
    /\ asset.exports[levels.target].actors =
           Append(pre.exports[levels.target].actors, Len(pre.exports) + 1)

\* C4 as stated: a root with no dependency on an import appends exactly one
\* export and no import, and the level's actors grow by the new export's index.
C4_AsStated ==
    (Transplanted /\ RootWithoutImportDeps) => OneExportAppended

\* C4: a root with no dependency on an import and no create-before-
\* serialization dependency on another export appends exactly one export and
\* no import, and the level's actors grow by the new export's index.
C4_LoneRootAppendsOne ==
    (/\ Transplanted
     /\ RootWithoutImportDeps
     /\ \A j \in 1..Len(donor_asset.exports[op.root].cbs) :
            donor_asset.exports[op.root].cbs[j] \in {0, op.root})
    => OneExportAppended

\* the lone root Leaf was transplanted after another root
C4_Witness ==
    /\ Transplanted
    /\ donor_asset.names[donor_asset.exports[op.root].object_name] = sLeaf
    /\ asset.names[asset.exports[Len(asset.exports)].object_name] = sLeaf
    /\ Len(asset.exports) = Len(pre.exports) + 1
    /\ Len(pre.exports) > 3

----------------------------------------------------------------------------
(* Properties of disable_import. *)

\* C11: disable_import is idempotent. After disable_import(X) every import
\* whose name resolves to X has outer_index 0, every other import and every
\* other field is as before, and applying it once more changes nothing.
C11_DisableImportIdempotent ==
    op.kind = "disable_import" =>
        /\ asset.names = pre.names
        /\ asset.exports = pre.exports
        /\ Len(asset.imports) = Len(pre.imports)
        /\ \A i \in 1..Len(pre.imports) :
             asset.imports[i] =
                 IF pre.names[pre.imports[i].object_name] = op.name
                 THEN [pre.imports[i] EXCEPT !.outer_index = 0]
                 ELSE pre.imports[i]
        /\ disable_import(asset, op.name) = asset

\* the import Old was disabled a second time: it was at 0 and the graph is
\* the one the first application left
C11_Witness ==
    /\ op.kind = "disable_import" /\ op.name = sOld
    /\ n = 2
    /\ pre.names[pre.imports[2].object_name] = sOld
    /\ pre.imports[2].outer_index = 0
    /\ asset = pre
    /\ asset.imports[1].outer_index = 0

----------------------------------------------------------------------------
(* Properties of the closures. *)

\* the combined table the transplant of a root builds from the two closures
CombinedAt(ec, ic) ==
    combined_map(export_tuples(asset, ec.map), import_tuples(asset, ic.map),
                 levels.donor, levels.target)

\* C12: the assertion on the combined table holds for every donor and every
\* root: where both closures are built, the table has as many entries as the
\* closure has distinct exports, plus the distinct collected imports, plus one
\* for the level root, also when the closure reaches the donor's level root.
C12_RemapAssertionHolds ==
    (pc = "edits" /\ stage = 5) =>
        \A root_index \in 1..Len(donor_asset.exports) :
            \E ec \in {export_closure(donor_asset, root_index)} :
                \E ic \in {import_closure(donor_asset, ec.order)} :
                    (ec.ok /\ ic.ok) =>
                        Cardinality(DOMAIN CombinedAt(ec, ic)) =
                            Cardinality(DOMAIN ec.map) + Cardinality(DOMAIN ic.map) + 1

\* C13: the export closure holds each export once. Every donor export the
\* root reaches by positive create-before-serialization entries is in the
\* traversal sequence exactly once, so the transplant appends as many exports
\* as the closure has distinct exports.
C13_ClosureWithoutDuplicates ==
    Transplanted =>
        /\ \A k \in ClosureOf({op.root}) :
             Cardinality({pos \in 1..Len(op.order) : op.order[pos] = k}) = 1
        /\ Len(asset.exports) - Len(pre.exports) = Cardinality(ClosureOf({op.root}))

\* C14: on a donor whose indices are all valid the import closure never
\* fails: no transplant ends on an import that is not there.
C14_ImportClosureNeverFails ==
    ~(op.kind = "transplant" /\ ~op.ok /\ op.why = "ImportNotFound")

\* C15: the export closure terminates on every donor, cycles and self-loops
\* of create-before-serialization entries included: the stack is empty after
\* finitely many pops.
C15_ClosureTerminates == <>(pc = "closed")

\* the closure of Don ended on a donor in which Don, Cmp and Sub depend on
\* each other in a cycle
C15_Witness ==
    /\ pc = "closed"
    /\ op.root = 2
    /\ donor_asset.exports[4].cbs = <<2>>
    /\ DOMAIN op.map = {2, 3, 4}
    /\ op.stack = <<>>

====
